---- MODULE Spec2Model ----
(***************************************************************************)
(* Model of src/luckvsskill.py: run_experiment (one Monte Carlo run) and   *)
(* run_multiple_experiments (the batch driver).                            *)
(*                                                                         *)
(* Numbers.  The program computes in IEEE-754 binary floating point.  A    *)
(* float is modelled as an integer count of grid units, One units making   *)
(* 1.0, and every arithmetic result is rounded to MantBits significant     *)
(* bits, ties to even (operator Fl), as float64 does with 53 bits.  The    *)
(* grid unit is the smallest representable magnitude.  NaN is a value of   *)
(* its own; infinities and overflow are out of reach of the bounded        *)
(* inputs.                                                                 *)
(*                                                                         *)
(* Randomness.  np.random.normal is a nondeterministic choice of each      *)
(* sample from a finite set of floats.                                     *)
(*                                                                         *)
(* Sorting.  ndarray.argsort() with its default kind ('quicksort') is not  *)
(* stable: the model lets it return any permutation that sorts the keys.   *)
(***************************************************************************)
EXTENDS Integers, Sequences, FiniteSets, TLC

\* ------------------------------------------------------------- bounds
MaxN == 3          \* largest population size n
NumSkillVals == 3  \* how many distinct values a skill sample can take
NumLuckVals == 2   \* how many distinct values a luck sample can take
MantBits == 4      \* significant bits of a float (float64 has 53)
ScaleBits == 4     \* 1.0 is 2^ScaleBits grid units
MaxM == 3          \* largest number m of experiments in a batch
BatchN == 2        \* population size standing for the default n in a batch
BatchVals == 2     \* distinct values a sample can take inside a batch

\* ------------------------------------------------------ float arithmetic
RECURSIVE Pow2(_)
Pow2(k) == IF k = 0 THEN 1 ELSE 2 * Pow2(k - 1)

One == Pow2(ScaleBits)

\* not-a-number: an integer outside the range of every float of the model
NaN == 0 - Pow2(30)

IsNaN(x) == x = NaN

Abs(x) == IF x < 0 THEN 0 - x ELSE x

Max(a, b) == IF a >= b THEN a ELSE b

Min(a, b) == IF a <= b THEN a ELSE b

\* The spacing of the floats around num/den (num, den > 0): the least power
\* of two q with num/den < q * 2^MantBits.
RECURSIVE QuantumOf(_, _, _)
QuantumOf(num, den, q) ==
    IF num \div den < q * Pow2(MantBits) THEN q ELSE QuantumOf(num, den, 2 * q)

\* num/den (num >= 0, den > 0) rounded to the nearest integer, ties to even.
RoundHalfEven(num, den) ==
    LET f == num \div den
        r2 == 2 * (num % den)
    IN  IF r2 < den THEN f
        ELSE IF r2 > den THEN f + 1
        ELSE IF f % 2 = 0 THEN f ELSE f + 1

\* The float nearest to the rational num/den (den > 0).
Fl(num, den) ==
    LET a == Abs(num)
        q == QuantumOf(a, den, 1)
        r == q * RoundHalfEven(a, den * q)
    IN  IF num < 0 THEN 0 - r ELSE r

FAdd(a, b) == IF IsNaN(a) \/ IsNaN(b) THEN NaN ELSE Fl(a + b, 1)

FSub(a, b) == IF IsNaN(a) \/ IsNaN(b) THEN NaN ELSE Fl(a - b, 1)

FMul(a, b) == IF IsNaN(a) \/ IsNaN(b) THEN NaN ELSE Fl(a * b, One)

\* float(k) of a Python int k
IntToFloat(k) == Fl(k * One, 1)

\* Python's int / int (true division); raises ZeroDivisionError when b = 0,
\* which no state of the model reaches (n >= 1).
IntTrueDiv(a, b) == Fl(a * One, b)

\* int(x) of a float x: truncation toward zero
PyInt(x) == IF x < 0 THEN 0 - ((0 - x) \div One) ELSE x \div One

\* IEEE comparison: false when either side is NaN
FGe(a, b) == (~IsNaN(a)) /\ (~IsNaN(b)) /\ a >= b

\* a / b for floats; 0.0 / 0.0 is NaN (x / 0.0 with x # 0 would be an
\* infinity: the model divides by zero only a zero sum).
FDiv(a, b) ==
    IF IsNaN(a) \/ IsNaN(b) \/ b = 0 THEN NaN ELSE Fl(a * One, b)

\* floor of the square root of the natural number t
ISqrt(t) == CHOOSE f \in 0..t : f * f <= t /\ t < (f + 1) * (f + 1)

\* np.sqrt of a float v >= 0
FSqrt(v) ==
    IF IsNaN(v) THEN NaN
    ELSE LET t == v * One
             f == ISqrt(t)
         IN  Fl(IF t > f * f + f THEN f + 1 ELSE f, 1)

\* ------------------------------------------------------- array helpers
Range(s) == {s[i] : i \in 1..Len(s)}

\* column c of a two-dimensional array: data[:, c]
Column(data, c) == [i \in 1..Len(data) |-> data[i][c]]

\* fancy indexing a[idx] with an index array
Take(a, idx) == [i \in 1..Len(idx) |-> a[idx[i]]]

\* a[start:] with Python's slice rules: a negative start counts from the end
\* and is clipped at 0, and -0 is 0
SliceFrom(a, start) ==
    LET len == Len(a)
        s == IF start < 0 THEN Max(start + len, 0) ELSE Min(start, len)
    IN  SubSeq(a, s + 1, len)

Perms(k) == {p \in [1..k -> 1..k] : \A i, j \in 1..k : i # j => p[i] # p[j]}

\* The index arrays argsort may return for keys: every permutation that puts
\* the keys in ascending order (the default sort kind is not stable).
Argsorts(keys) ==
    {p \in Perms(Len(keys)) :
        \A i \in 1..(Len(keys) - 1) : keys[p[i]] <= keys[p[i + 1]]}

\* np.sort(xs): the values in ascending order
NpSort(xs) == Take(xs, CHOOSE p \in Argsorts(xs) : TRUE)

\* np.add.reduce over a one-dimensional array, left to right
RECURSIVE FSum(_)
FSum(xs) ==
    IF Len(xs) = 0 THEN 0
    ELSE FAdd(FSum(SubSeq(xs, 1, Len(xs) - 1)), xs[Len(xs)])

\* np.mean of a one-dimensional array: NaN for an empty one
Mean1(xs) == FDiv(FSum(xs), IntToFloat(Len(xs)))

\* np.mean(data, axis = 0) of an array of (aggregate, skill, luck) rows
MeanAxis0(data) ==
    <<Mean1(Column(data, 1)), Mean1(Column(data, 2)), Mean1(Column(data, 3))>>

\* np.std(xs, ddof = 1)
Std1(xs) ==
    LET mean == Mean1(xs)
        sq == [i \in 1..Len(xs) |->
                 FMul(FSub(xs[i], mean), FSub(xs[i], mean))]
    IN  FSqrt(FDiv(FSum(sq), IntToFloat(Len(xs) - 1)))

\* the default atol = 1e-8 of np.allclose, as a float of the model
Atol == Fl(One, 100000000)

\* np.allclose(a, b, rtol = rtol) of two scalars
AllClose(a, b, rtol) ==
    (~IsNaN(a)) /\ (~IsNaN(b))
    /\ Abs(FSub(a, b)) <= FAdd(Atol, FMul(rtol, Abs(b)))

\* np.intersect1d(a, b): the distinct values found in both arrays
Intersect1d(a, b) == Range(a) \cap Range(b)

\* np.around(x, 2): rint(x * 100.0) / 100.0
Around2(x) ==
    IF IsNaN(x) THEN NaN ELSE
    LET h == IntToFloat(100)
        y == FMul(x, h)
        r == Fl(RoundHalfEven(Abs(y), One) * One, 1)
    IN  FDiv(IF y < 0 THEN 0 - r ELSE r, h)

BoolInt(b) == IF b THEN 1 ELSE 0

\* one printed line: what it says and the numbers it shows (the rules of
\* dashes between the lines are left out of the record)
Line(text, args) == [text |-> text, args |-> args]

\* ------------------------------------------------------------- inputs
\* the values a sample can take: neighbouring floats just below 1.0
SkillValues == {One - k : k \in 1..NumSkillVals}

LuckValues == {One - k : k \in 1..NumLuckVals}

BatchValues == {One - k : k \in 1..BatchVals}

\* weight_skill: 0.0, 0.5, 1.0
Weights == {0, One \div 2, One}

\* threshold: 0.25, 0.75, 1.0
Thresholds == {One \div 4, 3 * (One \div 4), One}

VARIABLES
    \* run_experiment's parameters
    n, mu, sigma, weight_skill, threshold, tolerance, verbose, report,
    \* run_experiment's locals
    skill, luck, all_data, order, sorted_data, cutoff, cutoff_data,
    all_means, cutoff_means, skill_data, intersect_data, lucked_out_rate,
    \* run_experiment's position, and the tuple it returned
    pc, ret,
    \* run_multiple_experiments' parameter, locals and position
    m, pop, cut, scores, iter, calls, bpc,
    \* the lines printed to standard output and the calls made to pyplot
    out

params == <<n, mu, sigma, weight_skill, threshold, tolerance, verbose, report>>

locals == <<skill, luck, all_data, order, sorted_data, cutoff, cutoff_data,
            all_means, cutoff_means, skill_data, intersect_data,
            lucked_out_rate>>

batch == <<m, pop, cut, scores, iter, calls, bpc>>

vars == <<params, locals, pc, ret, batch, out>>

\* the locals of a call that has not run yet
FreshLocals ==
    /\ skill = <<>> /\ luck = <<>> /\ all_data = <<>> /\ order = <<>>
    /\ sorted_data = <<>> /\ cutoff = 0 /\ cutoff_data = <<>>
    /\ all_means = <<>> /\ cutoff_means = <<>> /\ skill_data = <<>>
    /\ intersect_data = {} /\ lucked_out_rate = 0

\* --------------------------------------------------------- run_experiment
\* weight_skill*skill + (1.0-weight_skill)*luck, for one individual
Aggregate(w, s, l) == FAdd(FMul(w, s), FMul(FSub(One, w), l))

\* np.stack((aggregate, skill, luck), axis = 0).T
Stack(aggregate, s, l) ==
    [i \in 1..Len(s) |-> <<aggregate[i], s[i], l[i]>>]

\* int(threshold*n)
CutoffOf(thr, k) == PyInt(FMul(thr, IntToFloat(k)))

\* a slip: sorted_data[cutoff:,:], the minus sign lost
CutoffSliceNoMinus(data, c) == SliceFrom(data, c)

\* a slip: sorted_data[:cutoff,:], the head of the ranking
CutoffSliceHead(data, c) == SubSeq(data, 1, Min(c, Len(data)))

\* a slip: sorted_data[-cutoff+1:,:], off by one
CutoffSliceOffByOne(data, c) == SliceFrom(data, 1 - c)

\* sorted_data[-cutoff:,:]
CutoffSlice(data, c) == SliceFrom(data, 0 - c)

\* a slip: the ranking keyed on column 1 (skill)
SortKeysSkill(data) == Column(data, 2)

\* all_data[:,0], the key of the ranking
SortKeys(data) == Column(data, 1)

\* a slip: np.sort(all_data[:,1])[:cutoff], the lowest skills
SkillDataHead(data, c) ==
    SubSeq(NpSort(Column(data, 2)), 1, Min(c, Len(data)))

\* np.sort(all_data[:,1])[-cutoff:]
SkillData(data, c) == SliceFrom(NpSort(Column(data, 2)), 0 - c)

\* a slip: the subtraction the other way round
LuckedOutRateReversed(inter, rows) == FSub(IntTrueDiv(inter, rows), One)

\* 1.0 - intersect_data.shape[0]/cutoff_data.shape[0]
LuckedOutRate(inter, rows) == FSub(One, IntTrueDiv(inter, rows))

\* the two lines printed after a sample is drawn when verbose is set
VerboseLines(what, xs) ==
    <<Line(what \o " average close to mu",
           <<BoolInt(AllClose(mu, Mean1(xs), tolerance))>>),
      Line(what \o " deviation close to sigma",
           <<BoolInt(AllClose(sigma, Std1(xs), tolerance))>>)>>

\* all_means*100 rounded to 2 decimals, as the report shows the means
Percent(means) ==
    [i \in 1..Len(means) |-> Around2(FMul(means[i], IntToFloat(100)))]

\* the lines of the report
ReportLines ==
    <<Line("Experiment", <<>>),
      Line("Weight", <<weight_skill>>),
      Line("Threshold", <<threshold>>),
      Line("Means (all)", Percent(all_means)),
      Line("Means (cutoff)", Percent(cutoff_means)),
      Line("Participants selected", <<Len(cutoff_data)>>),
      Line("Participants overlooked",
           <<Len(cutoff_data) - Cardinality(intersect_data)>>)>>

\* a slip: the report scales and rounds the means in place
AfterReportInPlace(means) == Percent(means)

\* the means run_experiment holds after the report was printed: the report
\* formats copies (all_means*100 is a new array)
AfterReport(means) == means

\* lines 67-71: skill = np.random.normal(mu+0.4, sigma, n), and the check
GenSkill ==
    /\ pc = "gen_skill"
    /\ \E s \in [1..n -> IF bpc = "none" THEN SkillValues ELSE BatchValues] :
         /\ skill' = s
         /\ out' = IF verbose THEN out \o VerboseLines("skill", s) ELSE out
    /\ pc' = "gen_luck"
    /\ UNCHANGED <<params, luck, all_data, order, sorted_data, cutoff,
                   cutoff_data, all_means, cutoff_means, skill_data,
                   intersect_data, lucked_out_rate, ret, batch>>

\* lines 73-77: luck = np.random.normal(mu, sigma, n), and the check
GenLuck ==
    /\ pc = "gen_luck"
    /\ \E l \in [1..n -> IF bpc = "none" THEN LuckValues ELSE BatchValues] :
         /\ luck' = l
         /\ out' = IF verbose THEN out \o VerboseLines("luck", l) ELSE out
    /\ pc' = "aggregate"
    /\ UNCHANGED <<params, skill, all_data, order, sorted_data, cutoff,
                   cutoff_data, all_means, cutoff_means, skill_data,
                   intersect_data, lucked_out_rate, ret, batch>>

\* lines 80-84: the aggregate scores, stacked with skill and luck
AggregateStep ==
    /\ pc = "aggregate"
    /\ all_data' = Stack([i \in 1..n |->
                            Aggregate(weight_skill, skill[i], luck[i])],
                         skill, luck)
    /\ pc' = "sort"
    /\ UNCHANGED <<params, skill, luck, order, sorted_data, cutoff,
                   cutoff_data, all_means, cutoff_means, skill_data,
                   intersect_data, lucked_out_rate, ret, batch, out>>

\* lines 86-87: sorted_data = all_data[all_data[:,0].argsort()]
SortStep ==
    /\ pc = "sort"
    /\ \E p \in Argsorts(SortKeys(all_data)) :
         /\ order' = p
         /\ sorted_data' = Take(all_data, p)
    /\ pc' = "cutoff"
    /\ UNCHANGED <<params, skill, luck, all_data, cutoff, cutoff_data,
                   all_means, cutoff_means, skill_data, intersect_data,
                   lucked_out_rate, ret, batch, out>>

\* lines 89-93: the cutoff group and the two vectors of means
CutoffStep ==
    /\ pc = "cutoff"
    /\ cutoff' = CutoffOf(threshold, n)
    /\ cutoff_data' = CutoffSlice(sorted_data, cutoff')
    /\ all_means' = MeanAxis0(all_data)
    /\ cutoff_means' = MeanAxis0(cutoff_data')
    /\ pc' = "compare"
    /\ UNCHANGED <<params, skill, luck, all_data, order, sorted_data,
                   skill_data, intersect_data, lucked_out_rate, ret, batch,
                   out>>

\* lines 95-98: the comparison with the ranking by skill alone
CompareStep ==
    /\ pc = "compare"
    /\ skill_data' = SkillData(all_data, cutoff)
    /\ intersect_data' = Intersect1d(skill_data', Column(cutoff_data, 2))
    /\ lucked_out_rate' =
         LuckedOutRate(Cardinality(intersect_data'), Len(cutoff_data))
    /\ pc' = "report"
    /\ UNCHANGED <<params, skill, luck, all_data, order, sorted_data, cutoff,
                   cutoff_data, all_means, cutoff_means, ret, batch, out>>

\* lines 100-113: the report, when asked for
ReportStep ==
    /\ pc = "report"
    /\ out' = IF report THEN out \o ReportLines ELSE out
    /\ all_means' = IF report THEN AfterReport(all_means) ELSE all_means
    /\ cutoff_means' =
         IF report THEN AfterReport(cutoff_means) ELSE cutoff_means
    /\ pc' = "return"
    /\ UNCHANGED <<params, skill, luck, all_data, order, sorted_data, cutoff,
                   cutoff_data, skill_data, intersect_data, lucked_out_rate,
                   ret, batch>>

\* lines 115-116: return all_means, cutoff_means, lucked_out_rate
ReturnStep ==
    /\ pc = "return"
    /\ ret' = <<all_means, cutoff_means, lucked_out_rate>>
    /\ pc' = "returned"
    /\ UNCHANGED <<params, locals, batch, out>>

RunExperiment ==
    \/ GenSkill
    \/ GenLuck
    \/ AggregateStep
    \/ SortStep
    \/ CutoffStep
    \/ CompareStep
    \/ ReportStep
    \/ ReturnStep

\* one call run_experiment(n, mu, sigma, weight_skill, threshold, tolerance,
\* verbose, report) from outside the module
Init ==
    /\ n \in 1..MaxN
    /\ mu = One - 1
    /\ sigma = 1
    /\ tolerance = 1
    /\ weight_skill \in Weights
    /\ threshold \in Thresholds
    /\ verbose \in BOOLEAN
    /\ report \in BOOLEAN
    /\ FreshLocals
    /\ pc = "gen_skill"
    /\ ret = <<>>
    /\ m = 0 /\ pop = <<>> /\ cut = <<>> /\ scores = <<>>
    /\ iter = 0 /\ calls = 0 /\ bpc = "none"
    /\ out = <<>>

Next == RunExperiment

Spec == Init /\ [][Next]_vars

\* ------------------------------------------------ run_multiple_experiments
\* run_experiment's defaults, as floats of the model
DefaultMu == Fl(5 * One, 10)

DefaultSigma == Fl(One, 10)

DefaultWeight == Fl(95 * One, 100)

DefaultTolerance == Fl(One, 100)

\* The default call ranks n = 500000 individuals and keeps threshold*n = 50
\* of them.  BatchN individuals stand for the population, and half of them
\* for the group kept.
DefaultThreshold == One \div 2

\* a one-dimensional array, as run_experiment returns its means
Array1(v) == [ndim |-> 1, data |-> v]

\* np.vstack((a, row)): a is one row (ndim 1) or a stack of rows (ndim 2)
VStack(a, row) ==
    [ndim |-> 2,
     data |-> IF a.ndim = 1 THEN <<a.data, row>> ELSE Append(a.data, row)]

\* whether a[:,1] can be taken; a one-dimensional array raises IndexError
TwoDim(a) == a.ndim = 2

\* run_experiment(): every parameter takes its default
CallRunExperiment ==
    /\ pc = "idle"
    /\ n' = BatchN
    /\ mu' = DefaultMu
    /\ sigma' = DefaultSigma
    /\ weight_skill' = DefaultWeight
    /\ threshold' = DefaultThreshold
    /\ tolerance' = DefaultTolerance
    /\ verbose' = FALSE
    /\ report' = FALSE
    /\ pc' = "gen_skill"
    /\ calls' = calls + 1

\* run_experiment's frame is gone once its result is taken
DropFrame ==
    /\ pc = "returned"
    /\ pc' = "idle"
    /\ skill' = <<>> /\ luck' = <<>> /\ all_data' = <<>> /\ order' = <<>>
    /\ sorted_data' = <<>> /\ cutoff' = 0 /\ cutoff_data' = <<>>
    /\ all_means' = <<>> /\ cutoff_means' = <<>> /\ skill_data' = <<>>
    /\ intersect_data' = {} /\ lucked_out_rate' = 0
    /\ ret' = <<>>

\* line 12, the call
FirstCall ==
    /\ bpc = "first"
    /\ CallRunExperiment
    /\ bpc' = "first_ret"
    /\ UNCHANGED <<locals, ret, m, pop, cut, scores, iter, out>>

\* lines 12-13: pop, cut, score = run_experiment(); scores = [score]
FirstResult ==
    /\ bpc = "first_ret"
    /\ DropFrame
    /\ pop' = Array1(ret[1])
    /\ cut' = Array1(ret[2])
    /\ scores' = <<ret[3]>>
    /\ iter' = 0
    /\ bpc' = "loop"
    /\ UNCHANGED <<params, m, calls, out>>

\* lines 15-16: one more turn of for _ in range(m-1), the call
LoopCall ==
    /\ bpc = "loop"
    /\ iter < m - 1
    /\ CallRunExperiment
    /\ bpc' = "loop_ret"
    /\ UNCHANGED <<locals, ret, m, pop, cut, scores, iter, out>>

\* lines 16-19: a, b, c = run_experiment(), stacked and appended
LoopResult ==
    /\ bpc = "loop_ret"
    /\ DropFrame
    /\ pop' = VStack(pop, ret[1])
    /\ cut' = VStack(cut, ret[2])
    /\ scores' = Append(scores, ret[3])
    /\ iter' = iter + 1
    /\ bpc' = "loop"
    /\ UNCHANGED <<params, m, calls, out>>

\* lines 21-24: the head of the summary
SummaryHead ==
    <<Line("For experiments", <<m>>), Line("Whole Population", <<>>)>>

\* lines 21-30: the summary.  pop[:,1] at line 25 raises IndexError when pop
\* is one-dimensional, after the head was printed; nothing catches it.
Summary ==
    /\ bpc = "loop"
    /\ iter >= m - 1
    /\ pc = "idle"
    /\ IF TwoDim(pop) /\ TwoDim(cut)
       THEN /\ out' = out \o SummaryHead \o
                 <<Line("Skill", <<Mean1(Column(pop.data, 2))>>),
                   Line("Luck", <<Mean1(Column(pop.data, 3))>>),
                   Line("Selected Top Population", <<>>),
                   Line("Skill", <<Mean1(Column(cut.data, 2))>>),
                   Line("Luck", <<Mean1(Column(cut.data, 3))>>)>>
            /\ bpc' = "hist"
       ELSE /\ out' = out \o SummaryHead
            /\ bpc' = "raised"
    /\ UNCHANGED <<params, locals, pc, ret, m, pop, cut, scores, iter, calls>>

\* lines 31-33: plt.hist(scores, bins = 'auto'), plt.title, plt.show
Histogram ==
    /\ bpc = "hist"
    /\ out' = out \o <<Line("plt.hist", scores),
                       Line("plt.title Histogram of Lucked Out Rate", <<>>),
                       Line("plt.show", <<>>)>>
    /\ bpc' = "done"
    /\ UNCHANGED <<params, locals, pc, ret, m, pop, cut, scores, iter, calls>>

RunMultipleExperiments ==
    \/ FirstCall
    \/ FirstResult
    \/ LoopCall
    \/ LoopResult
    \/ Summary
    \/ Histogram

\* one call run_multiple_experiments(m)
InitBatch ==
    /\ m \in 1..MaxM
    /\ n = 0 /\ mu = 0 /\ sigma = 0 /\ weight_skill = 0 /\ threshold = 0
    /\ tolerance = 0 /\ verbose = FALSE /\ report = FALSE
    /\ FreshLocals
    /\ pc = "idle"
    /\ ret = <<>>
    /\ pop = <<>> /\ cut = <<>> /\ scores = <<>>
    /\ iter = 0 /\ calls = 0 /\ bpc = "first"
    /\ out = <<>>

NextBatch == RunMultipleExperiments \/ RunExperiment

SpecBatch == InitBatch /\ [][NextBatch]_vars

\* ------------------------------------------------------------- claims
\* the positions of run_experiment at which the cutoff group exists
AfterCutoff == {"compare", "report", "return", "returned"}

\* the positions at which lucked_out_rate exists
AfterCompare == {"report", "return", "returned"}

\* n >= 1, 0 < threshold <= 1 and threshold*n >= 1
ValidInput ==
    /\ n >= 1
    /\ 0 < threshold /\ threshold <= One
    /\ FMul(threshold, IntToFloat(n)) >= One

\* floor(threshold*n) of the product the program computes
FloorCutoff == FMul(threshold, IntToFloat(n)) \div One

\* the real-number sum of a one-dimensional array
RECURSIVE ExactSum(_)
ExactSum(xs) ==
    IF Len(xs) = 0 THEN 0 ELSE ExactSum(SubSeq(xs, 1, Len(xs) - 1)) + xs[Len(xs)]

\* how often the row x is found in the array a
Count(a, x) == Cardinality({i \in 1..Len(a) : a[i] = x})

SameMultiset(a, b) ==
    /\ Len(a) = Len(b)
    /\ \A x \in Range(a) \cup Range(b) : Count(a, x) = Count(b, x)

\* the (aggregate, skill, luck) row of individual i
RowOf(i) ==
    <<Aggregate(weight_skill, skill[i], luck[i]), skill[i], luck[i]>>

\* the individuals of the cutoff group: the last cutoff places of the ranking
CutIdx == {order[i] : i \in (n - cutoff + 1)..n}

\* the individuals with fewer than cutoff individuals of higher skill
TopSkillIdx ==
    {i \in 1..n : Cardinality({j \in 1..n : skill[j] > skill[i]}) < cutoff}

DistinctSkills == \A i, j \in 1..n : i # j => skill[i] # skill[j]

\* what run_experiment returns as a function of the samples, the ranking,
\* weight_skill and threshold alone
FlagFreeResult ==
    LET data == Stack([i \in 1..n |->
                         Aggregate(weight_skill, skill[i], luck[i])],
                      skill, luck)
        c == PyInt(FMul(threshold, IntToFloat(n)))
        group == SliceFrom(Take(data, order), 0 - c)
        top == SliceFrom(NpSort(skill), 0 - c)
        common == Range(top) \cap Range(Column(group, 2))
    IN  <<MeanAxis0(data), MeanAxis0(group),
          FSub(One, IntTrueDiv(Cardinality(common), Len(group)))>>

\* the position that follows each position of run_experiment
Succ(p) ==
    CASE p = "gen_skill" -> "gen_luck"
      [] p = "gen_luck" -> "aggregate"
      [] p = "aggregate" -> "sort"
      [] p = "sort" -> "cutoff"
      [] p = "cutoff" -> "compare"
      [] p = "compare" -> "report"
      [] p = "report" -> "return"
      [] p = "return" -> "returned"
      [] OTHER -> p

\* C1: for valid inputs the cutoff group has exactly floor(threshold*n)
\* members, and that number lies between 0 and n.
C1_CutoffSize ==
    (pc \in AfterCutoff /\ ValidInput) =>
        /\ Len(cutoff_data) = FloorCutoff
        /\ cutoff = FloorCutoff
        /\ 0 <= FloorCutoff /\ FloorCutoff <= n

C1_Witness ==
    /\ pc = "returned" /\ ValidInput
    /\ n = 3 /\ threshold < One /\ Len(cutoff_data) = 2

\* C2 (as claimed): with weight_skill = 1.0 the cutoff group and the
\* skill-only group hold the same set of skill values and lucked_out_rate
\* is 0, for every population, ties in skill included.
C2_WeightOneRateZero ==
    (pc \in AfterCompare /\ ValidInput /\ weight_skill = One) =>
        /\ Range(Column(cutoff_data, 2)) = Range(skill_data)
        /\ lucked_out_rate = 0

\* C3: lucked_out_rate is in [0, 1]: the distinct skill values common to the
\* two groups are never more than the members of the cutoff group.
C3_RateInUnitInterval ==
    pc \in AfterCompare =>
        /\ Cardinality(intersect_data) <= Len(cutoff_data)
        /\ 0 <= lucked_out_rate /\ lucked_out_rate <= One

C3_Witness ==
    /\ pc = "returned"
    /\ 0 < lucked_out_rate /\ lucked_out_rate < One
    /\ Cardinality(intersect_data) = 1 /\ Len(cutoff_data) = 2

\* the rows a stacked array holds
Rows(a) == IF a.ndim = 1 THEN 1 ELSE Len(a.data)

\* C4 (as claimed): for every m >= 1, run_multiple_experiments(m) calls
\* run_experiment m times, holds m rows of all_means, m rows of cutoff_means
\* and m rates when the loop is over, and then prints the summary and calls
\* the histogram: it never stops on an exception.
C4_BatchReachesSummary ==
    /\ bpc # "raised"
    /\ (bpc \in {"hist", "done"} \/ (bpc = "loop" /\ iter >= m - 1)) =>
           /\ calls = m
           /\ Rows(pop) = m /\ Rows(cut) = m /\ Len(scores) = m

\* C5 (as claimed): when floor(threshold*n) is 0 the cutoff group is empty
\* and cutoff_means is not-a-number in every component.
C5_ZeroCutoffEmptyGroup ==
    (pc \in AfterCutoff /\ n >= 1 /\ cutoff = 0) =>
        /\ Len(cutoff_data) = 0
        /\ \A c \in 1..3 : IsNaN(cutoff_means[c])

\* C6 (as claimed): for valid inputs with threshold < 1, cutoff_means[0] is
\* greater than or equal to all_means[0].
C6_CutoffMeanAtLeastAllMean ==
    (pc \in AfterCutoff /\ ValidInput /\ threshold < One) =>
        FGe(cutoff_means[1], all_means[1])

\* C6 (amended): for valid inputs with threshold < 1, the exact mean of the
\* cutoff group's aggregate scores is greater than or equal to the exact mean
\* of the population's; the two floating-point means carry the rounding
\* error of their own summations.
C6_ExactCutoffMeanAtLeastAllMean ==
    (pc \in AfterCutoff /\ ValidInput /\ threshold < One) =>
        ExactSum(Column(cutoff_data, 1)) * Len(all_data)
            >= ExactSum(Column(all_data, 1)) * Len(cutoff_data)

C6_Witness ==
    /\ pc = "returned" /\ ValidInput /\ threshold < One
    /\ n = 3 /\ Len(cutoff_data) = 2
    /\ ExactSum(Column(cutoff_data, 1)) * Len(all_data)
           > ExactSum(Column(all_data, 1)) * Len(cutoff_data)

C8_FlagsOnlyPrint ==
    [][ /\ pc' = Succ(pc)
        /\ (pc' = "returned" => ret' = FlagFreeResult)
        /\ ((~verbose /\ ~report) => out' = out) ]_vars

C8_Witness ==
    /\ pc = "returned" /\ verbose /\ report
    /\ Len(out) = 11
    /\ out[3].args = <<0>>
    /\ ret = FlagFreeResult

\* C9: when no two individuals share a skill value (and threshold*n >= 1),
\* the skill values common to the two groups are as many as the individuals
\* common to the cutoff group and the top cutoff individuals by skill, so
\* lucked_out_rate is the rate computed from the individuals.
C9_ValueRateIsIdentityRate ==
    (pc \in AfterCompare /\ ValidInput /\ DistinctSkills) =>
        /\ Cardinality(intersect_data) = Cardinality(CutIdx \cap TopSkillIdx)
        /\ Len(cutoff_data) = Cardinality(CutIdx)
        /\ lucked_out_rate =
             FSub(One, IntTrueDiv(Cardinality(CutIdx \cap TopSkillIdx),
                                  Cardinality(CutIdx)))

C9_Witness ==
    /\ pc = "returned" /\ ValidInput /\ DistinctSkills
    /\ n = 3 /\ cutoff = 2
    /\ Cardinality(CutIdx \ TopSkillIdx) = 1

\* C10: for valid inputs the cutoff group is the tail of the ranking: its
\* rows are the (aggregate, skill, luck) rows of cutoff distinct individuals,
\* aggregate being weight_skill*skill + (1 - weight_skill)*luck, and no
\* individual left out has a higher aggregate than a member.
C10_CutoffIsTopTail ==
    (pc \in AfterCutoff /\ ValidInput) =>
        /\ Cardinality(CutIdx) = Len(cutoff_data)
        /\ \A r \in 1..Len(cutoff_data) :
             cutoff_data[r] = RowOf(order[n - cutoff + r])
        /\ \A i \in CutIdx : \A j \in (1..n) \ CutIdx :
             RowOf(i)[1] >= RowOf(j)[1]

C10_Witness ==
    /\ pc = "returned" /\ ValidInput
    /\ n = 3 /\ cutoff = 2
    /\ weight_skill = One \div 2
    /\ \E j \in (1..n) \ CutIdx : skill[j] > cutoff_data[1][2]

====
